---------------------------- MODULE Spec2Model ----------------------------
(***************************************************************************)
(* Ledger recalculation of the trading tracker (src/app.py).               *)
(*                                                                         *)
(* Money is counted in units of 0.002 dollar, so that round(x, 2) of the   *)
(* source is a real operation: it rounds to a multiple of Cent = 5 units,  *)
(* and no amount lies half-way between two cents.  100.004 dollars are     *)
(* 50002 units.  The column 'Target P&L' is counted in units of 0.00001    *)
(* dollar, so that start_balance * 0.065 is exact: a balance of s units    *)
(* has the target s * Rate, and one cent is TargetCent of these units.     *)
(*                                                                         *)
(* Dates are day numbers.  Day d stands for the calendar date              *)
(* 2025-12-27 + d days: day 1 is Sunday 2025-12-28, the last day of ISO    *)
(* week 52 of 2025, and day 2 is Monday 2025-12-29, the first day of ISO   *)
(* week 1 of 2026.  NaT is the value pd.to_datetime(..., errors='coerce')  *)
(* gives an unparseable date.  The P&L cell of a trade is <<p>> when it     *)
(* holds the number p and <<>> when it holds no number.                    *)
(*                                                                         *)
(* Spec is one operator with every call to the sheets going through;       *)
(* SpecFaults adds failing replace writes and the expiry of the read       *)
(* cache; SpecBad adds rows put into the trade sheet by hand; SpecRace has *)
(* two operators at the deposit form; SpecConfig starts with or without a  *)
(* sheet id; SpecTracker is the live tracker, its clock in seconds.        *)
(***************************************************************************)
EXTENDS Integers, Sequences, FiniteSets, TLC

\* ---- bounds of the model ----
MaxDay == 2
MaxTrades == 3
MaxDeposits == 1
MaxRows == 4
MaxDrifts == 1
MaxFaults == 1
MaxOperators == 2
MaxRaceDeposits == 2
MaxTime == 25

\* ---- program constants ----
InitialBalance == 1136110
DefaultArgument == 1141610
Rate == 13
Cent == 5
TargetCent == 1000
NaT == 0
MinRefreshSec == 5
DefaultRefreshSec == 20

Days == 1 .. MaxDay
DepositUnit == 50 * 100 * Cent
PnlValues == {0 - 1150000, 50002}
DepositValues == {0, DepositUnit}
ResetTexts == {"DELETE", "delete"}

VARIABLES trades, summary, initial_balance, today, recorded, drifts, op,
          cache, report, crashed, faults, pending, configured, tracker

vars == <<trades, summary, initial_balance, today, recorded, drifts, op,
          cache, report, crashed, faults, pending, configured, tracker>>

\* ---- arithmetic ----

\* round(x, 2): the nearest multiple of q, an exact tie going to the even
\* multiple (no balance is a tie, Cent being odd).
RoundTo(x, q) ==
    LET r == x % q
        base == x - r
    IN  IF 2 * r < q THEN base
        ELSE IF 2 * r > q THEN base + q
        ELSE IF (base \div q) % 2 = 0 THEN base ELSE base + q

Round2(x) == RoundTo(x, Cent)

\* date.isocalendar()[1] of day d
IsoWeek(d) == IF d <= 1 THEN 52 ELSE ((d - 2) \div 7) + 1

\* target_pl = start_balance * 0.065; if start_balance <= 0: target_pl = 0
ClampedTarget(start) == IF start <= 0 THEN 0 ELSE start * Rate

\* today_target_pl = today_start_bal * 0.065   (no clamp in the source)
UnclampedTarget(start) == start * Rate

\* ---- sequences ----
RECURSIVE SetToSortedSeq(_)
SetToSortedSeq(S) ==
    IF S = {} THEN <<>>
    ELSE LET m == CHOOSE x \in S : \A y \in S : x <= y
         IN  <<m>> \o SetToSortedSeq(S \ {m})

RECURSIVE SumSeq(_)
SumSeq(s) == IF s = <<>> THEN 0 ELSE Head(s) + SumSeq(Tail(s))

RemoveAt(s, i) == SubSeq(s, 1, i - 1) \o SubSeq(s, i + 1, Len(s))

\* ---- recalculate_all_summaries ----

\* pd.to_datetime(errors='coerce').dt.date.fillna(pd.NaT).ffill(): in store
\* order an unparseable date takes the last parseable date before it; a
\* leading unparseable date stays NaT.
RECURSIVE FFill(_, _)
FFill(dates, last) ==
    IF dates = <<>> THEN <<>>
    ELSE LET d == IF Head(dates) = NaT THEN last ELSE Head(dates)
         IN  <<d>> \o FFill(Tail(dates), d)

TradeDates(tr) == FFill([i \in 1 .. Len(tr) |-> tr[i].trade_date], NaT)

\* keys that fill the calendar: a group for every day, traded or not
GroupKeysAllDays(tr) == SetToSortedSeq(Days)

\* groupby('trade_date'): the keys ascending, NaT keys dropped
GroupKeys(tr) ==
    SetToSortedSeq({TradeDates(tr)[i] : i \in 1 .. Len(tr)} \ {NaT})

GroupIdx(tr, d) == {i \in 1 .. Len(tr) : TradeDates(tr)[i] = d}

\* pd.to_numeric(cell, errors='coerce') and .fillna(0): the number a cell
\* holds, 0 for a cell that holds no number
ToNumeric(cell) == IF cell = <<>> THEN 0 ELSE cell[1]

\* group['pnl'].sum()
RECURSIVE SumPnl(_, _)
SumPnl(tr, I) ==
    IF I = {} THEN 0
    ELSE LET i == CHOOSE x \in I : TRUE
         IN  ToNumeric(tr[i].pnl) + SumPnl(tr, I \ {i})

GroupPnl(tr, d) == SumPnl(tr, GroupIdx(tr, d))

\* group.shape[0]
GroupCount(tr, d) == Cardinality(GroupIdx(tr, d))

\* a seed row that starts from the default argument of the function
SeedRowDefault(ib, td) ==
    [Date |-> td, Week |-> IsoWeek(td), Trades |-> 0,
     StartBal |-> DefaultArgument,
     TargetPL |-> UnclampedTarget(DefaultArgument), ActualPL |-> 0,
     DepositBonus |-> 0, EndBal |-> DefaultArgument]

\* the row written when the trade store is empty
SeedRow(ib, td) ==
    [Date |-> td, Week |-> IsoWeek(td), Trades |-> 0, StartBal |-> ib,
     TargetPL |-> UnclampedTarget(ib), ActualPL |-> 0, DepositBonus |-> 0,
     EndBal |-> ib]

\* first loop: one row per trade date, the deposit column set to 0
RECURSIVE FirstPass(_, _, _)
FirstPass(tr, keys, cb) ==
    IF keys = <<>> THEN <<>>
    ELSE LET date == Head(keys)
             total_pl == GroupPnl(tr, date)
             start_balance == cb
             end_balance == start_balance + total_pl
             row == [Date |-> date, Week |-> IsoWeek(date),
                     Trades |-> GroupCount(tr, date),
                     StartBal |-> Round2(start_balance),
                     TargetPL |-> RoundTo(ClampedTarget(start_balance), TargetCent),
                     ActualPL |-> Round2(total_pl),
                     DepositBonus |-> 0,
                     EndBal |-> Round2(end_balance)]
         IN  <<row>> \o FirstPass(tr, Tail(keys), end_balance)

\* the 'Deposit/Bonus' values of the old rows that carry date d, in old order
RECURSIVE OldDeposits(_, _)
OldDeposits(old, d) ==
    IF old = <<>> THEN <<>>
    ELSE (IF Head(old).Date = d THEN <<Head(old).DepositBonus>> ELSE <<>>)
         \o OldDeposits(Tail(old), d)

\* one left row joined with its matches: a row per match, or one row with
\* the deposit 0 (NaN filled) when nothing matches
RECURSIVE JoinRow(_, _)
JoinRow(row, deps) ==
    IF deps = <<>> THEN <<>>
    ELSE <<[row EXCEPT !.DepositBonus = Head(deps)]>> \o JoinRow(row, Tail(deps))

\* a join by row position instead of by date
MergeDepositsByPosition(new, old) ==
    [i \in 1 .. Len(new) |->
        [new[i] EXCEPT !.DepositBonus =
            IF i <= Len(old) THEN old[i].DepositBonus ELSE 0]]

\* pd.merge(df_summary, df_old_summary[['Date','Deposit/Bonus']], how='left')
RECURSIVE MergeDeposits(_, _)
MergeDeposits(new, old) ==
    IF new = <<>> THEN <<>>
    ELSE LET deps == OldDeposits(old, Head(new).Date)
         IN  (IF deps = <<>> THEN <<[Head(new) EXCEPT !.DepositBonus = 0]>>
              ELSE JoinRow(Head(new), deps))
             \o MergeDeposits(Tail(new), old)

\* a carry that forgets the deposit
NextBalanceDropDeposit(start, actual_pl, deposit) == start + actual_pl

\* current_balance_recalc = end_balance
NextBalance(start, actual_pl, deposit) == start + actual_pl + deposit

\* second loop: the balances folded again over the merged rows
RECURSIVE SecondPass(_, _)
SecondPass(rows, cb) ==
    IF rows = <<>> THEN <<>>
    ELSE LET row == Head(rows)
             deposit == row.DepositBonus
             actual_pl == row.ActualPL
             start_balance == cb
             end_balance == start_balance + actual_pl + deposit
             new == [Date |-> row.Date, Week |-> row.Week,
                     Trades |-> row.Trades,
                     StartBal |-> Round2(start_balance),
                     TargetPL |-> RoundTo(ClampedTarget(start_balance), TargetCent),
                     ActualPL |-> Round2(actual_pl),
                     DepositBonus |-> Round2(deposit),
                     EndBal |-> Round2(end_balance)]
         IN  <<new>> \o SecondPass(Tail(rows),
                                   NextBalance(start_balance, actual_pl, deposit))

\* the synthetic row for today
TodayRow(last_end_bal, td) ==
    [Date |-> td, Week |-> IsoWeek(td), Trades |-> 0,
     StartBal |-> Round2(last_end_bal),
     TargetPL |-> RoundTo(UnclampedTarget(last_end_bal), TargetCent),
     ActualPL |-> 0, DepositBonus |-> 0,
     EndBal |-> Round2(last_end_bal)]

\* a recalculation that never appends the row for today
AppendTodayNever(rows, td) == rows

\* if last_recorded_date_str != today_date_str: append the row for today
AppendToday(rows, td) ==
    IF rows # <<>> /\ rows[Len(rows)].Date # td
    THEN Append(rows, TodayRow(rows[Len(rows)].EndBal, td))
    ELSE rows

\* a recalculation whose second loop starts from 0 instead of the initial
\* balance
RecalcSecondFromZero(ib, tr, td, old) ==
    IF tr = <<>> THEN <<SeedRow(ib, td)>>
    ELSE LET first == FirstPass(tr, GroupKeys(tr), ib)
             merged == IF old = <<>> THEN first
                       ELSE SecondPass(MergeDeposits(first, old), 0)
         IN  AppendToday(merged, td)

\* the summary recalculate_all_summaries(ib) writes with mode='replace',
\* given the trade store tr, today's date td and the stored summary old
Recalc(ib, tr, td, old) ==
    IF tr = <<>> THEN <<SeedRow(ib, td)>>
    ELSE LET first == FirstPass(tr, GroupKeys(tr), ib)
             merged == IF old = <<>> THEN first
                       ELSE SecondPass(MergeDeposits(first, old), ib)
         IN  AppendToday(merged, td)

\* ---- load_data and the module-level initialisation ----

\* df_summary.sort_values(by='Date').iloc[0]
FirstByDate(rows) ==
    LET i == CHOOSE k \in 1 .. Len(rows) :
                 /\ \A j \in 1 .. Len(rows) : rows[k].Date <= rows[j].Date
                 /\ \A j \in 1 .. (k - 1) : rows[j].Date # rows[k].Date
    IN  rows[i]

\* ---- the sheets and the read cache ----

\* a replace write ends in one of three ways: both calls went through; an
\* exception before worksheet.clear(); an exception in worksheet.update()
\* after worksheet.clear() had gone through
WriteFailures == {"fail_before_clear", "fail_after_clear"}

\* get_data_from_sheet('daily_summary') under @st.cache_data: the cached
\* rows while the cache holds them, the sheet otherwise
ReadSummary(w) == IF w.cache # <<>> THEN w.cache[1] ELSE w.summary

\* the world after the read: the cache holds what was read
Cached(w) == [w EXCEPT !.cache = <<ReadSummary(w)>>]

\* write_data_to_sheet('daily_summary', rows, mode='replace') with outcome f;
\* get_data_from_sheet.clear() runs only when nothing raised
WriteReplace(w, rows, f) ==
    IF f = "ok" THEN [w EXCEPT !.summary = rows, !.cache = <<>>]
    ELSE IF f = "fail_after_clear" THEN [w EXCEPT !.summary = <<>>]
    ELSE w

\* ---- what a run reports ----

\* passes: for each recalculation of the operation, the outcome of its write
\* and the toast it showed; handler: the outcome of the write of the
\* recalculation deposit_form calls; notice: the last message of the form;
\* ran: the parts of the script that ran
NoReport ==
    [passes |-> {}, handler |-> "none", notice |-> "none", ran |-> {}]

\* write_data_to_sheet(...) with its result dropped, then st.toast(...)
Pass(w, f, toast) ==
    [w EXCEPT !.report.passes = @ \cup {[write |-> f, toast |-> toast]}]

\* the records of the store put in the order of their dates
RECURSIVE InDateOrder(_, _)
InDateOrder(tr, keys) ==
    IF keys = <<>> THEN <<>>
    ELSE SelectSeq(tr, LAMBDA t : t.trade_date = Head(keys))
         \o InDateOrder(tr, Tail(keys))

\* a recalculation that writes the sorted trade frame back to the store
RecalcRunSortsStore(w, td, f) ==
    IF w.trades # <<>> /\ GroupKeys(w.trades) = <<>>
    THEN [w EXCEPT !.crashed = TRUE]
    ELSE LET r == IF w.trades = <<>> THEN w ELSE Cached(w)
             rows == Recalc(r.ib, r.trades, td, ReadSummary(r))
         IN  [Pass(WriteReplace(r, rows, f), f,
                   IF w.trades = <<>> THEN "none" ELSE "success")
                 EXCEPT !.trades = InDateOrder(w.trades, GroupKeys(w.trades))]

\* recalculate_all_summaries(w.ib) acting on the sheets, its write ending
\* with outcome f.  With trades in the store and no group (every date NaT)
\* df_summary['Date'] raises KeyError and the script stops.
RecalcRun(w, td, f) ==
    IF w.trades # <<>> /\ GroupKeys(w.trades) = <<>>
    THEN [w EXCEPT !.crashed = TRUE]
    ELSE LET r == IF w.trades = <<>> THEN w ELSE Cached(w)
             rows == Recalc(r.ib, r.trades, td, ReadSummary(r))
         IN  Pass(WriteReplace(r, rows, f), f,
                  IF w.trades = <<>> THEN "none" ELSE "success")

\* the world with part x of the script noted as run
Ran(w, x) == [w EXCEPT !.report.ran = @ \cup {x}]

\* one run of the script without a sheet id: st.error(...) and SHEET_ID =
\* None, and the script goes on; connect_gsheets() gives None, every read
\* gives an empty frame, recalculate_all_summaries returns at its first
\* line, and the page is drawn
ScriptRunUnconfigured(w) ==
    Ran(Ran(Ran([w EXCEPT !.cache = <<<<>>>>], "config_error"), "load_data"),
        "render")

\* one run of the script down to the second load_data and the drawing of
\* the page: the initial balance is taken from the earliest row load_data
\* returns, the summary is recalculated (its write ending with outcome f)
\* and loaded again
ScriptRunF(w, td, f) ==
    IF ~w.configured THEN ScriptRunUnconfigured(w)
    ELSE LET w0 == Ran(Cached(w), "load_data")
             s0 == w0.cache[1]
             ib == IF s0 # <<>> THEN FirstByDate(s0).StartBal ELSE w.ib
             w1 == RecalcRun(Ran([w0 EXCEPT !.ib = ib], "recalculate"), td, f)
         IN  IF w1.crashed THEN w1 ELSE Ran(Cached(w1), "render")

\* a run of the script in which every call to the sheets goes through
ScriptRun(w, td) == ScriptRunF(w, td, "ok")

\* the sheets, the cache and the session as an operation finds them
World ==
    [trades |-> trades, ib |-> initial_balance, summary |-> summary,
     cache |-> cache, report |-> NoReport, crashed |-> FALSE,
     configured |-> configured]

\* the state an operation leaves.  The model stops where the summary would
\* outgrow MaxRows rows or the initial balance would change more than
\* MaxDrifts times.
Commit(w, td, o) ==
    /\ Len(w.summary) <= MaxRows
    /\ drifts' = drifts + (IF w.ib # initial_balance THEN 1 ELSE 0)
    /\ drifts' <= MaxDrifts
    /\ trades' = w.trades
    /\ summary' = w.summary
    /\ initial_balance' = w.ib
    /\ cache' = w.cache
    /\ report' = w.report
    /\ crashed' = w.crashed
    /\ configured' = w.configured
    /\ today' = td
    /\ op' = o

NoOp == [name |-> "Init", date |-> NaT]

ZeroRecorded == [d \in Days |-> 0]

Operators == 1 .. MaxOperators

NoPending == [o \in Operators |-> <<>>]

\* the live tracker of a new session: the clock, the inputs at their
\* defaults, no run of the script under way
NewTracker ==
    [now |-> 0, last_refresh_time |-> 0, refresh_sec |-> DefaultRefreshSec,
     auto_refresh |-> FALSE, manual_refresh |-> FALSE, running |-> FALSE]

FirstRunReport ==
    [NoReport EXCEPT !.passes = {[write |-> "ok", toast |-> "none"]},
                     !.ran = {"load_data", "recalculate", "render"}]

\* the state after the first run of the script on empty sheets
Init ==
    /\ today \in Days
    /\ configured = TRUE
    /\ trades = <<>>
    /\ initial_balance = InitialBalance
    /\ summary = Recalc(InitialBalance, <<>>, today, <<>>)
    /\ cache = <<summary>>
    /\ report = FirstRunReport
    /\ crashed = FALSE
    /\ recorded = ZeroRecorded
    /\ drifts = 0
    /\ faults = 0
    /\ pending = NoPending
    /\ tracker = NewTracker
    /\ op = NoOp

\* the page is loaded or refreshed: the script runs once (op.date keeps the
\* day of the run before)
PageLoad ==
    \E td \in today .. MaxDay :
        /\ Commit(ScriptRun(World, td), td,
                  [name |-> "PageLoad", date |-> today])
        /\ UNCHANGED <<recorded, faults, pending, tracker>>

\* the cell the trade form writes for a P&L, and a cell that is no number
Numeric(p) == <<p>>
NonNumeric == <<>>

\* the handler of the Trade Entry Form once the script has run: the trade
\* is appended to the trade store and st.rerun() runs the script again;
\* without a store the write returns False and the form says so
TradeHandler(w, td, d, p) ==
    IF ~w.configured THEN [w EXCEPT !.report.notice = "failed to log"]
    ELSE ScriptRun([w EXCEPT !.trades =
                       Append(w.trades,
                              [trade_date |-> d, pnl |-> Numeric(p)])], td)

\* Trade Entry Form: the script runs, then the handler
SubmitTrade ==
    \E td \in today .. MaxDay, d \in Days, p \in PnlValues :
        /\ Len(trades) < MaxTrades
        /\ LET w1 == ScriptRun(World, td)
           IN  /\ ~w1.crashed
               /\ Commit(TradeHandler(w1, td, d, p), td,
                         [name |-> "SubmitTrade", date |-> d])
        /\ UNCHANGED <<recorded, faults, pending, tracker>>

\* the row deposit_form appends when no stored row carries the date
PlaceholderRow(d, a) ==
    [Date |-> d, Week |-> IsoWeek(d), Trades |-> 0, StartBal |-> 0,
     TargetPL |-> 0, ActualPL |-> 0, DepositBonus |-> a, EndBal |-> 0]

\* index[0] of the stored rows that carry date d
FirstRowOn(rows, d) ==
    CHOOSE k \in 1 .. Len(rows) :
        rows[k].Date = d /\ \A j \in 1 .. (k - 1) : rows[j].Date # d

\* the table deposit_form writes back: the amount added to the first row of
\* the date, or a placeholder row appended
WithDeposit(rows, d, a) ==
    IF \E k \in 1 .. Len(rows) : rows[k].Date = d
    THEN [rows EXCEPT ![FirstRowOn(rows, d)].DepositBonus = @ + a]
    ELSE Append(rows, PlaceholderRow(d, a))

\* a write-back that reads the sheet again and adds the amount to it
WriteBackFresh(w, td, d, a, rows, f1, f2) ==
    LET w1 == WriteReplace(w, WithDeposit(ReadSummary(w), d, a), f1)
        w2 == RecalcRun(w1, td, f2)
    IN  IF f1 # "ok" THEN [w1 EXCEPT !.report.notice = "failed"]
        ELSE ScriptRun([w2 EXCEPT !.report.handler = f2,
                                  !.report.notice = "balances updated"], td)

\* deposit_form from its write on: the table made from the rows it read is
\* written (outcome f1); on success the summary is recalculated (its write
\* ending with outcome f2), 'balances updated' is shown and st.rerun() runs
\* the script again
WriteBack(w, td, d, a, rows, f1, f2) ==
    LET w1 == WriteReplace(w, WithDeposit(rows, d, a), f1)
        w2 == RecalcRun(w1, td, f2)
    IN  IF f1 # "ok" THEN [w1 EXCEPT !.report.notice = "failed"]
        ELSE ScriptRun([w2 EXCEPT !.report.handler = f2,
                                  !.report.notice = "balances updated"], td)

\* what deposit_form does once the script has run
DepositHandlerF(w, td, d, a, f1, f2) ==
    IF ReadSummary(w) = <<>> THEN [w EXCEPT !.report.notice = "no summary"]
    ELSE WriteBack(w, td, d, a, ReadSummary(w), f1, f2)

DepositHandler(w, td, d, a) == DepositHandlerF(w, td, d, a, "ok", "ok")

TotalRecorded == SumSeq([d \in 1 .. MaxDay |-> recorded[d]])

\* deposit_form: the script runs, the deposit is written into the summary,
\* the summary is recalculated, st.rerun() runs the script again
Deposit ==
    \E td \in today .. MaxDay, d \in Days, a \in DepositValues :
        /\ TotalRecorded + a <= MaxDeposits * DepositUnit
        /\ LET w1 == ScriptRun(World, td)
           IN  /\ ~w1.crashed
               /\ Commit(DepositHandler(w1, td, d, a), td,
                         [name |-> "Deposit", date |-> d])
        /\ recorded' = [recorded EXCEPT ![d] = @ + a]
        /\ UNCHANGED <<faults, pending, tracker>>

\* a reset that also puts the session back to the balance of a new session
ResetHandlerNewSession(w, td, text) ==
    IF text = "DELETE"
    THEN ScriptRun([w EXCEPT !.trades = <<>>, !.summary = <<>>,
                             !.cache = <<>>, !.ib = InitialBalance], td)
    ELSE w

\* Reset All Data: the button works only with the text 'DELETE'; it clears
\* both sheets and the caches and st.rerun() runs the script again
ResetHandler(w, td, text) ==
    IF text = "DELETE"
    THEN ScriptRun([w EXCEPT !.trades = <<>>, !.summary = <<>>,
                             !.cache = <<>>], td)
    ELSE w

Reset ==
    \E td \in today .. MaxDay, text \in ResetTexts :
        /\ LET w1 == ScriptRun(World, td)
           IN  /\ ~w1.crashed
               /\ Commit(ResetHandler(w1, td, text), td,
                         [name |-> IF text = "DELETE" THEN "Reset"
                                   ELSE "ResetRefused",
                          date |-> NaT])
        /\ recorded' = IF text = "DELETE" THEN ZeroRecorded ELSE recorded
        /\ UNCHANGED <<faults, pending, tracker>>

\* deleteTrade: the event store drops one trade record, then the script
\* runs and recalculates
DeleteTrade ==
    \E td \in today .. MaxDay, i \in 1 .. Len(trades) :
        /\ Commit(ScriptRun([World EXCEPT !.trades = RemoveAt(trades, i)], td),
                  td,
                  [name |-> "DeleteTrade", date |-> TradeDates(trades)[i]])
        /\ UNCHANGED <<recorded, faults, pending, tracker>>

\* one operator, every call to the sheets going through
Next == PageLoad \/ SubmitTrade \/ Deposit \/ Reset \/ DeleteTrade

Spec == Init /\ [][Next]_vars

\* ---- a sheet call that fails ----

\* the page is loaded and the write of the recalculation fails
PageLoadFails ==
    \E td \in today .. MaxDay, f \in WriteFailures :
        /\ faults < MaxFaults
        /\ Commit(ScriptRunF(World, td, f), td,
                  [name |-> "PageLoad", date |-> today])
        /\ faults' = faults + 1
        /\ UNCHANGED <<recorded, pending, tracker>>

\* deposit_form with a failing write: its own, or that of the recalculation
\* it calls
DepositFails ==
    \E td \in today .. MaxDay, d \in Days, f \in WriteFailures,
       own \in BOOLEAN :
        /\ faults < MaxFaults
        /\ TotalRecorded + DepositUnit <= MaxDeposits * DepositUnit
        /\ LET w1 == ScriptRun(World, td)
           IN  /\ ~w1.crashed
               /\ Commit(DepositHandlerF(w1, td, d, DepositUnit,
                                         IF own THEN f ELSE "ok",
                                         IF own THEN "ok" ELSE f),
                         td, [name |-> "Deposit", date |-> d])
        /\ recorded' = IF own THEN recorded
                       ELSE [recorded EXCEPT ![d] = @ + DepositUnit]
        /\ faults' = faults + 1
        /\ UNCHANGED <<pending, tracker>>

\* ttl=60: the cached rows of get_data_from_sheet expire
CacheExpire ==
    /\ cache # <<>>
    /\ cache' = <<>>
    /\ UNCHANGED <<trades, summary, initial_balance, today, recorded, drifts,
                   op, report, crashed, faults, pending, configured,
                   tracker>>

\* one operator, at most MaxFaults failing calls.  In Spec the cache always
\* holds the rows of the sheet, so its expiry shows only here.
NextFaults ==
    \/ PageLoad \/ SubmitTrade \/ Deposit
    \/ PageLoadFails \/ DepositFails \/ CacheExpire

SpecFaults == Init /\ [][NextFaults]_vars

\* ---- records the trade form did not write ----

\* rows put into the 'trades' sheet by hand: the date cell unparseable, the
\* P&L cell no number, or both
BadRecords ==
    {[trade_date |-> NaT, pnl |-> c] :
        c \in {Numeric(p) : p \in PnlValues} \cup {NonNumeric}}
    \cup {[trade_date |-> d, pnl |-> NonNumeric] : d \in Days}

\* such a row is appended to the sheet; the next run of the script reads it
SheetEdit ==
    \E td \in today .. MaxDay, r \in BadRecords :
        /\ Len(trades) < MaxTrades
        /\ Commit(ScriptRun([World EXCEPT !.trades = Append(trades, r)], td),
                  td, [name |-> "SheetEdit", date |-> r.trade_date])
        /\ UNCHANGED <<recorded, faults, pending, tracker>>

NextBad == PageLoad \/ SubmitTrade \/ SheetEdit

SpecBad == Init /\ [][NextBad]_vars

\* ---- two operators at the deposit form ----

\* the amounts recorded and those of the forms that have read and not yet
\* written
RaceTotal ==
    TotalRecorded
    + SumSeq([o \in Operators |->
                 IF pending[o] = <<>> THEN 0 ELSE pending[o][1].amount])

\* operator o submits deposit_form: the script runs and the handler reads
\* the summary (df_summary_latest)
DepositRead(o) ==
    \E td \in today .. MaxDay, d \in Days :
        /\ pending[o] = <<>>
        /\ RaceTotal + DepositUnit <= MaxRaceDeposits * DepositUnit
        /\ LET w1 == ScriptRun(World, td)
           IN  /\ ~w1.crashed
               /\ ReadSummary(w1) # <<>>
               /\ Commit(w1, td, [name |-> "DepositRead", date |-> d])
               /\ pending' = [pending EXCEPT ![o] =
                                 <<[date |-> d, amount |-> DepositUnit,
                                    rows |-> ReadSummary(w1)]>>]
        /\ UNCHANGED <<recorded, faults, tracker>>

\* the handler of operator o goes on: it writes the table made from the rows
\* it read, recalculates and reruns (op.before keeps the deposits the sheet
\* held on the date right before the write)
DepositWrite(o) ==
    /\ pending[o] # <<>>
    /\ LET p == pending[o][1]
       IN  /\ Commit(WriteBack(World, today, p.date, p.amount, p.rows,
                               "ok", "ok"),
                     today,
                     [name |-> "DepositWrite", date |-> p.date,
                      before |-> SumSeq(OldDeposits(summary, p.date))])
           /\ recorded' = [recorded EXCEPT ![p.date] = @ + p.amount]
    /\ pending' = [pending EXCEPT ![o] = <<>>]
    /\ UNCHANGED <<faults, tracker>>

\* two operators on one server, every call to the sheets going through
NextRace ==
    \/ PageLoad \/ SubmitTrade
    \/ \E o \in Operators : DepositRead(o)
    \/ \E o \in Operators : DepositWrite(o)

SpecRace == Init /\ [][NextRace]_vars

\* ---- the app without a sheet id ----

\* the state after the first run of the script, with or without
\* gsheets.sheet_id in the secrets
InitConfig ==
    /\ today \in Days
    /\ configured \in BOOLEAN
    /\ trades = <<>>
    /\ initial_balance = InitialBalance
    /\ summary = IF configured THEN Recalc(InitialBalance, <<>>, today, <<>>)
                 ELSE <<>>
    /\ cache = <<summary>>
    /\ report = IF configured THEN FirstRunReport
                ELSE ScriptRunUnconfigured([report |-> NoReport,
                                            cache |-> <<>>]).report
    /\ crashed = FALSE
    /\ recorded = ZeroRecorded
    /\ drifts = 0
    /\ faults = 0
    /\ pending = NoPending
    /\ tracker = NewTracker
    /\ op = NoOp

NextConfig == PageLoad \/ SubmitTrade

SpecConfig == InitConfig /\ [][NextConfig]_vars

\* ---- the live tracker ----

RefreshSecs == {MinRefreshSec, DefaultRefreshSec}

\* a second passes
Tick ==
    /\ tracker.now < MaxTime
    /\ tracker' = [tracker EXCEPT !.now = @ + 1]
    /\ UNCHANGED <<trades, summary, initial_balance, today, recorded, drifts,
                   op, cache, report, crashed, faults, pending, configured>>

\* the user sets the interval, the Auto-Refresh toggle, or presses
\* 'Refresh Now': a widget event, which makes the script run
TrackerInput ==
    \E s \in RefreshSecs, a \in BOOLEAN, m \in BOOLEAN :
        /\ ~tracker.running
        /\ tracker' = [tracker EXCEPT !.refresh_sec = s, !.auto_refresh = a,
                                      !.manual_refresh = m, !.running = TRUE]
        /\ UNCHANGED <<trades, summary, initial_balance, today, recorded,
                       drifts, op, cache, report, crashed, faults, pending,
                       configured>>

\* a run of the script with the tracker: should_refresh moves
\* last_refresh_time; with Auto-Refresh on and the interval elapsed the
\* script sleeps a second and st.rerun() runs it again, otherwise it ends
\* and waits for a widget event
TrackerRun ==
    /\ tracker.running
    /\ LET time_since_refresh == tracker.now - tracker.last_refresh_time
           elapsed == tracker.auto_refresh
                      /\ time_since_refresh >= tracker.refresh_sec
           should_refresh == tracker.manual_refresh \/ elapsed
       IN  tracker' =
               [tracker EXCEPT
                   !.last_refresh_time = IF should_refresh THEN tracker.now
                                         ELSE @,
                   !.manual_refresh = FALSE,
                   !.now = IF elapsed /\ @ < MaxTime THEN @ + 1 ELSE @,
                   !.running = elapsed]
    /\ Commit(ScriptRun(World, today), today,
              [name |-> "TrackerRun", date |-> today])
    /\ UNCHANGED <<recorded, faults, pending>>

NextTracker == Tick \/ TrackerInput \/ TrackerRun

SpecTracker == Init /\ [][NextTracker]_vars

\* ---- properties ----

RowDates(rows) == {rows[i].Date : i \in 1 .. Len(rows)}

HasRowOn(rows, d) == d \in RowDates(rows)

IsPrefix(s, t) == Len(s) <= Len(t) /\ SubSeq(t, 1, Len(s)) = s

\* the sum of 'Actual P&L' + 'Deposit/Bonus' over the rows j .. k
RECURSIVE Inflow(_, _, _)
Inflow(rows, j, k) ==
    IF j > k THEN 0
    ELSE rows[j].ActualPL + rows[j].DepositBonus + Inflow(rows, j + 1, k)

\* C1: balance continuity - in the persisted summary every row after the
\* first starts with the end balance of the row right before it.
BalanceContinuity ==
    \A i \in 2 .. Len(summary) : summary[i].StartBal = summary[i - 1].EndBal

\* C1 witness: a summary of three rows or more in which a row that is not
\* the last carries a deposit and a trade, so the carry crosses a deposit.
BalanceContinuityWitness ==
    /\ Len(summary) >= 3
    /\ \E i \in 1 .. (Len(summary) - 1) :
           summary[i].DepositBonus > 0 /\ summary[i].ActualPL # 0

\* C2: idempotence - recalculating again from the persisted summary, with
\* the same initial balance, trades and today, persists the same summary.
RecalcIdempotent ==
    Recalc(initial_balance, trades, today, summary) = summary

\* C3: no two rows of the persisted summary share a date.
DatesDistinct ==
    \A i, j \in 1 .. Len(summary) : i # j => summary[i].Date # summary[j].Date

\* C4: the rows of the persisted summary are in ascending date order, the
\* synthetic row for today included.
DatesAscending ==
    \A i, j \in 1 .. Len(summary) : i < j => summary[i].Date <= summary[j].Date

\* C5: deposit preservation - when a trade is inserted or deleted on date
\* Y, every other date X that carried a nonzero deposit still carries the
\* same deposit values afterwards, and each of them is part of the end
\* balance of its row and of every later row.
DepositPreserved ==
    [][op'.name \in {"SubmitTrade", "DeleteTrade"} =>
         \A X \in Days \ {op'.date} :
             (\E i \in 1 .. Len(summary) :
                  summary[i].Date = X /\ summary[i].DepositBonus # 0)
             => /\ IsPrefix(OldDeposits(summary, X), OldDeposits(summary', X))
                /\ \A j \in 1 .. Len(summary') :
                       summary'[j].Date = X =>
                           \A k \in j .. Len(summary') :
                               summary'[k].EndBal =
                                   summary'[j].StartBal + Inflow(summary', j, k)
      ]_vars

\* C5 witness: a trade was just inserted or deleted on one date while
\* another date carries a nonzero deposit, followed by a later row.
DepositPreservedWitness ==
    /\ op.name \in {"SubmitTrade", "DeleteTrade"}
    /\ \E i \in 1 .. (Len(summary) - 1) :
           /\ summary[i].Date # op.date
           /\ summary[i].DepositBonus > 0

\* C6: when the trade store is not empty, the dates with a row are the
\* dates with a trade, the dates with a nonzero recorded deposit and today;
\* a date with a recorded deposit has a row that carries the deposit.
RowsAreTradesAndDeposits ==
    trades # <<>> =>
    /\ RowDates(summary) =
           ({TradeDates(trades)[i] : i \in 1 .. Len(trades)} \ {NaT})
           \cup {d \in Days : recorded[d] # 0} \cup {today}
    /\ \A d \in Days :
           recorded[d] # 0 =>
               \E i \in 1 .. Len(summary) :
                   summary[i].Date = d /\ summary[i].DepositBonus = recorded[d]

\* C7: deposits accumulate - with trades in the store, a deposit recorded
\* on a date that has a summary row leaves exactly one row for the date,
\* whose deposit is the value it had plus the amount recorded.
DepositsAccumulate ==
    [][(op'.name = "Deposit" /\ HasRowOn(summary, op'.date) /\ trades # <<>>) =>
         LET d == op'.date
             a == recorded'[d] - recorded[d]
         IN  /\ Len(OldDeposits(summary', d)) = 1
             /\ OldDeposits(summary', d)[1] = OldDeposits(summary, d)[1] + a
      ]_vars

\* the balance before date d that the stored trades tr and the deposits of
\* the summary rows old give, starting from ib
RECURSIVE LedgerBefore(_, _, _, _)
LedgerBefore(ib, tr, old, d) ==
    IF d <= 1 THEN ib
    ELSE LedgerBefore(ib, tr, old, d - 1)
         + Round2(GroupPnl(tr, d - 1)) + SumSeq(OldDeposits(old, d - 1))

\* C8: deletion cascade - after a trade of date D is removed, other trades
\* remaining, and the summary recalculated with the same initial balance,
\* every row of a later date starts and ends with the balance that the
\* remaining trades and the deposits give, and D has no row when it is
\* left without a trade and without a deposit (today keeps its synthetic
\* row).
DeletionCascades ==
    [][(/\ op'.name = "DeleteTrade"
        /\ initial_balance' = initial_balance
        /\ trades' # <<>>) =>
         LET D == op'.date
         IN  /\ \A k \in 1 .. Len(summary') :
                    summary'[k].Date > D =>
                        /\ summary'[k].StartBal =
                               LedgerBefore(initial_balance, trades', summary,
                                            summary'[k].Date)
                        /\ summary'[k].EndBal =
                               LedgerBefore(initial_balance, trades', summary,
                                            summary'[k].Date + 1)
             /\ (/\ GroupIdx(trades', D) = {}
                 /\ SumSeq(OldDeposits(summary, D)) = 0
                 /\ D # today')
                => ~HasRowOn(summary', D)
      ]_vars

\* C9: empty-history seed - with an empty trade store the persisted summary
\* is exactly one row, dated today, that starts and ends with the initial
\* balance and has no trade, no profit and no deposit.
EmptyHistorySeed ==
    trades = <<>> =>
        /\ Len(summary) = 1
        /\ summary[1].Date = today
        /\ summary[1].StartBal = initial_balance
        /\ summary[1].EndBal = initial_balance
        /\ summary[1].Trades = 0
        /\ summary[1].ActualPL = 0
        /\ summary[1].DepositBonus = 0

\* C9 witness: the trade store is empty and the last operation recorded a
\* deposit, so the summary the recalculation read carried a deposit.
EmptyHistorySeedWitness ==
    /\ trades = <<>>
    /\ op.name = "Deposit"
    /\ recorded[op.date] > 0

\* C10: target clamp - no row has a negative target, and a row that starts
\* with a balance of zero or less has the target 0.
TargetClamped ==
    \A i \in 1 .. Len(summary) :
        /\ summary[i].TargetPL >= 0
        /\ summary[i].StartBal <= 0 => summary[i].TargetPL = 0

TodayHasRow == HasRowOn(summary, today)

\* C13 witness: the store holds trades, none of them dated today, and the
\* last row of the summary is the row for today.
TodayHasRowWitness ==
    /\ trades # <<>>
    /\ GroupIdx(trades, today) = {}
    /\ summary[Len(summary)].Date = today
    /\ summary[Len(summary)].Trades = 0

\* C14: the first row of the persisted summary starts with the initial
\* balance the recalculation was given.
FirstRowStartsAtInitial ==
    summary # <<>> => summary[1].StartBal = initial_balance

\* C14 witness: the trade just submitted is the only one of its date, it is
\* dated before another stored trade, and its row is the first row.
FirstRowStartsAtInitialWitness ==
    /\ op.name = "SubmitTrade"
    /\ GroupCount(trades, op.date) = 1
    /\ \E i \in 1 .. (Len(trades) - 1) : trades[i].trade_date > op.date
    /\ summary[1].Date = op.date
    /\ summary[1].Trades = 1

\* C20: the summary loaded for rendering after a user action reflects the
\* action: a submitted trade is counted in the row of its date, and the
\* deposits recorded on the date of a deposit are in the rows of that date.
ActionReflected ==
    /\ op.name = "SubmitTrade" =>
           \E i \in 1 .. Len(summary) :
               /\ summary[i].Date = op.date
               /\ summary[i].Trades = GroupCount(trades, op.date)
    /\ (op.name = "Deposit" /\ trades # <<>>) =>
           SumSeq(OldDeposits(summary, op.date)) = recorded[op.date]

\* C11: no partial write - when the write of the recalculation of a page
\* load fails, the persisted summary is left exactly as it was before.
NoPartialWrite ==
    [][(/\ op'.name = "PageLoad"
        /\ \E p \in report'.passes : p.write \in WriteFailures)
       => summary' = summary]_vars

\* the difference between 'End Bal.' and the sum of the three columns
RowGap(row) == row.EndBal - (row.StartBal + row.ActualPL + row.DepositBonus)

\* C15: every row of the persisted summary satisfies
\* End Bal. = Start Bal. + Actual P&L + Deposit/Bonus.
RowArithmetic == \A i \in 1 .. Len(summary) : RowGap(summary[i]) = 0

\* C19: a recalculation whose write failed shows no success toast, and the
\* deposit form does not report 'balances updated' when the write of the
\* recalculation it called failed.
FailureReported ==
    /\ \A p \in report.passes :
           p.write \in WriteFailures => p.toast # "success"
    /\ report.handler \in WriteFailures => report.notice # "balances updated"

\* the sum of the numbers in the P&L cells of the trades with index in I, a
\* cell without a number counting 0
RECURSIVE CellSum(_)
CellSum(I) ==
    IF I = {} THEN 0
    ELSE LET k == CHOOSE x \in I : TRUE
         IN  (IF trades[k].pnl = NonNumeric THEN 0 ELSE trades[k].pnl[1])
             + CellSum(I \ {k})

\* the date trade k counts under: its own, or for an unparseable date that
\* of the nearest record before it with a parseable date (NaT if none)
EffectiveDate(k) ==
    LET valid == {j \in 1 .. k : trades[j].trade_date # NaT}
    IN  IF valid = {} THEN NaT
        ELSE trades[CHOOSE j \in valid : \A i \in valid : i <= j].trade_date

CountingOn(d) == {k \in 1 .. Len(trades) : EffectiveDate(k) = d}

\* C16: per-date aggregation - in each row 'Trades' is the number of trades
\* that count under the date of the row and 'Actual P&L' is the sum of their
\* pnl, to the cent; no trade is counted under another date.
PerDateAggregation ==
    ~crashed =>
        \A i \in 1 .. Len(summary) :
            /\ summary[i].Trades = Cardinality(CountingOn(summary[i].Date))
            /\ summary[i].ActualPL = Round2(CellSum(CountingOn(summary[i].Date)))

\* C17: bad input never stops the recalculation - no run of the script ends
\* in an exception raised by recalculate_all_summaries.
NeverCrashes == ~crashed

\* C18: lost update - a deposit form that writes leaves on its date the
\* deposits of the rows it had read plus its own amount: what another
\* operator wrote on that date after the read is not in the result.
LostUpdate ==
    [][\A o \in Operators :
          (/\ pending[o] # <<>>
           /\ pending'[o] = <<>>
           /\ GroupIdx(trades, pending[o][1].date) # {})
          => SumSeq(OldDeposits(summary', pending[o][1].date))
               = SumSeq(OldDeposits(pending[o][1].rows, pending[o][1].date))
                 + pending[o][1].amount]_vars

\* C18 witness: two deposits were recorded on a date with a trade; the sheet
\* held the first one when the second form wrote, and after the write the
\* date carries one amount only.
LostUpdateWitness ==
    /\ op.name = "DepositWrite"
    /\ pending = NoPending
    /\ GroupIdx(trades, op.date) # {}
    /\ recorded[op.date] = 2 * DepositUnit
    /\ op.before = DepositUnit
    /\ SumSeq(OldDeposits(summary, op.date)) = DepositUnit

\* two tables with the same rows up to the column 'Deposit/Bonus'
SameButDeposit(a, b) ==
    /\ Len(a) = Len(b)
    /\ \A i \in 1 .. Len(a) :
           [a[i] EXCEPT !.DepositBonus = 0] = [b[i] EXCEPT !.DepositBonus = 0]

\* C21: the table the deposit form writes (the rows it read, with the
\* amount it was given) differs from the rows it read in the column
\* 'Deposit/Bonus' only: same rows, same other columns.
FormWritesDepositOnly ==
    [][op'.name = "Deposit" =>
          LET rows == ReadSummary(ScriptRun(World, today'))
              a == recorded'[op'.date] - recorded[op'.date]
          IN  SameButDeposit(WithDeposit(rows, op'.date, a), rows)]_vars

\* C22: week index monotonicity - a row with a later date never has a
\* smaller week number.
WeekMonotone ==
    \A i, j \in 1 .. Len(summary) :
        summary[i].Date < summary[j].Date => summary[i].Week <= summary[j].Week

\* the largest 'Trades' among the rows dated d, 0 without such a row
TradesShownOn(d) ==
    LET S == {summary[i].Trades : i \in {k \in 1 .. Len(summary) :
                                            summary[k].Date = d}}
    IN  IF S = {} THEN 0 ELSE CHOOSE x \in S : \A y \in S : y <= x

\* the number of trades the summary counts, over all dates
CountedTrades == SumSeq([d \in 1 .. MaxDay |-> TradesShownOn(d)])

Unparseable == {k \in 1 .. Len(trades) : trades[k].trade_date = NaT}

\* C24: one policy for unparseable dates - the summary counts either every
\* trade of the store (all unparseable dates forward-filled) or exactly the
\* trades with a parseable date (all of them rejected).
SingleDatePolicy ==
    ~crashed =>
        CountedTrades \in {Len(trades), Len(trades) - Cardinality(Unparseable)}

\* C25: a trade whose pnl is non-numeric is excluded - no row counts more
\* trades than the trades of its date that have a numeric pnl.
NonNumericExcluded ==
    ~crashed =>
        \A i \in 1 .. Len(summary) :
            summary[i].Trades <=
                Cardinality({k \in CountingOn(summary[i].Date) :
                                trades[k].pnl # NonNumeric})

\* C26: conservation of balance - with trades in the store, the End Bal. of
\* the last row is, to the cent, the initial balance plus the pnl of all
\* trades plus the deposits recorded through the deposit form.
Conservation ==
    trades # <<>> =>
        summary[Len(summary)].EndBal =
            Round2(initial_balance + CellSum(1 .. Len(trades)) + TotalRecorded)

\* C27: the initial balance the script derives at page load is the one the
\* first recalculation used.
InitialBalanceStable == initial_balance = InitialBalance

\* C28: the trade store changes only by a trade submission, which appends
\* one record, by the reset, and by the deletion of a trade; a page load, a
\* deposit and a refused reset leave it as it was.
TradeStoreFrame ==
    [][/\ op'.name \in {"PageLoad", "Deposit", "ResetRefused"}
            => trades' = trades
       /\ op'.name = "SubmitTrade"
            => (Len(trades') = Len(trades) + 1 /\ IsPrefix(trades, trades'))
       /\ trades' # trades
            => op'.name \in {"SubmitTrade", "Reset", "DeleteTrade"}]_vars

\* C28 witness: a deposit was recorded while the store held two trades, the
\* later one stored first, and both are still there in that order.
TradeStoreFrameWitness ==
    /\ op.name = "Deposit"
    /\ recorded[op.date] > 0
    /\ Len(trades) = 2
    /\ trades[1].trade_date > trades[2].trade_date

\* C29: the reset clears the store and the summary only with the text
\* 'DELETE', and the run after it writes the single seed row with the
\* initial balance of the run in which the button was pressed; with another
\* text the trades stay and the summary is that of an ordinary run.
ResetGuarded ==
    [][/\ op'.name = "Reset"
            => /\ trades' = <<>>
               /\ summary' = <<SeedRow(ScriptRun(World, today').ib, today')>>
       /\ op'.name = "ResetRefused"
            => /\ trades' = trades
               /\ summary' = ScriptRun(World, today').summary]_vars

\* C29 witness: a reset after the initial balance had changed: the store is
\* empty and the seed row starts with the changed balance.
ResetGuardedWitness ==
    /\ op.name = "Reset"
    /\ trades = <<>>
    /\ initial_balance # InitialBalance
    /\ summary = <<SeedRow(initial_balance, today)>>

\* C23: without a sheet id a run of the script stops at the error: no
\* load, no recalculation and no drawing of the page runs.
FailsFast ==
    (~configured /\ op.name = "PageLoad") =>
        report.ran \cap {"load_data", "recalculate", "render"} = {}

\* C30: with Auto-Refresh on, once the refresh interval has elapsed since
\* the last refresh a run of the script is under way.
RefreshFollows ==
    (/\ tracker.auto_refresh
     /\ tracker.now - tracker.last_refresh_time >= tracker.refresh_sec)
    => tracker.running
=============================================================================
